---- MODULE Spec2Model ----
(***************************************************************************)
(* A model of foiloptimiser.py: the Pollock aerofoil generator             *)
(* (create_pollock_aerofoil), the solver driver (run_xfoil), the polar     *)
(* parser (read_pol), the objective function, the optimisation driver and  *)
(* the result aggregation loop at module level.                            *)
(*                                                                         *)
(* Numbers.  Shape parameters are decimal numbers with at most four        *)
(* decimals, held as integers in units of 1/ParamScale.  A chordwise       *)
(* station x is held as the integer x * One(chordlength): every division   *)
(* the generator performs is exact in that unit, so the arithmetic is the  *)
(* exact rational arithmetic of the source's formulas.  File names are     *)
(* sequences of one-character strings.                                     *)
(***************************************************************************)
EXTENDS Integers, Sequences, FiniteSets, TLC

\* ------------------------------------------------------------------ bounds
MaxEvals == 3
MaxRows == 4
MaxThickness == 2
MaxChord == 3
MaxFactor == 3

\* ------------------------------------------------------- program constants
RECURSIVE Pow10(_)
Pow10(n) == IF n = 0 THEN 1 ELSE 10 * Pow10(n - 1)

\* round(p, 3) keeps RoundDigits decimals; parameters are held one decimal
\* finer, so that rounding has something to remove.
RoundDigits == 3
ParamScale == 10 * Pow10(RoundDigits)
thickness == 22
chordlength == 235
x_le == 24680
baseline == <<21430, 8030>>
bounds == <<<<20000, 23000>>, <<7800, 8500>>>>
points == 50
HeaderLines == 13

\* ---------------------------------------------------------------- helpers
Abs(n) == IF n < 0 THEN -n ELSE n

Max(a, b) == IF a >= b THEN a ELSE b

RECURSIVE GCD(_, _)
GCD(a, b) == IF b = 0 THEN a ELSE GCD(b, a % b)

LCM(a, b) == (a * b) \div GCD(a, b)

Reverse(s) == [i \in 1..Len(s) |-> s[Len(s) + 1 - i]]

\* ------------------------------------------------- text: str, split, float
Digits == <<"0", "1", "2", "3", "4", "5", "6", "7", "8", "9">>

IsDigit(c) == \E d \in 1..10 : Digits[d] = c

DigitValue(c) == (CHOOSE d \in 1..10 : Digits[d] = c) - 1

RECURSIVE NatToChars(_)
NatToChars(n) == IF n < 10 THEN <<Digits[n + 1]>> ELSE NatToChars(n \div 10) \o <<Digits[(n % 10) + 1]>>

RECURSIVE StripZeros(_)
StripZeros(s) == IF Len(s) > 1 /\ s[Len(s)] = "0" THEN StripZeros(SubSeq(s, 1, Len(s) - 1)) ELSE s

\* The decimals of a fraction f (0 <= f < ParamScale), zero padded.
FracChars(f) == [i \in 1..(RoundDigits + 1) |-> Digits[((f \div Pow10(RoundDigits + 1 - i)) % 10) + 1]]

\* str(v) of a non-negative float v with at most four decimals: the shortest
\* decimal that reads back as v, with at least one decimal ("2.0", "0.8").
FloatStr(v) == NatToChars(v \div ParamScale) \o <<".">> \o StripZeros(FracChars(v % ParamScale))

RECURSIVE Split(_, _)
Split(s, sep) ==
    IF \A i \in 1..Len(s) : s[i] # sep
    THEN <<s>>
    ELSE LET k == CHOOSE i \in 1..Len(s) : s[i] = sep /\ \A j \in 1..(i - 1) : s[j] # sep
         IN  <<SubSeq(s, 1, k - 1)>> \o Split(SubSeq(s, k + 1, Len(s)), sep)

RECURSIVE DigitsValue(_)
DigitsValue(s) == IF Len(s) = 0 THEN 0 ELSE 10 * DigitsValue(SubSeq(s, 1, Len(s) - 1)) + DigitValue(s[Len(s)])

\* Whether float(s) accepts s: digits with at most one point, at least one digit.
IsFloatText(s) ==
    /\ \A i \in 1..Len(s) : IsDigit(s[i]) \/ s[i] = "."
    /\ Cardinality({i \in 1..Len(s) : s[i] = "."}) <= 1
    /\ \E i \in 1..Len(s) : IsDigit(s[i])

\* float(s) in units of 1/ParamScale, for a text float(s) accepts.
FloatOf(s) ==
    LET parts == Split(s, ".")
        pad   == [i \in 1..(RoundDigits + 1) |-> "0"]
        frac  == IF Len(parts) = 2 THEN SubSeq(parts[2] \o pad, 1, RoundDigits + 1) ELSE pad
    IN  DigitsValue(parts[1]) * ParamScale + DigitsValue(frac)

StartsWithAt(s, i, pat) == i + Len(pat) - 1 <= Len(s) /\ SubSeq(s, i, i + Len(pat) - 1) = pat

\* s.replace(old, new): every occurrence, left to right.
RECURSIVE ReplaceFrom(_, _, _, _)
ReplaceFrom(s, i, old, new) ==
    IF i > Len(s) THEN <<>>
    ELSE IF StartsWithAt(s, i, old) THEN new \o ReplaceFrom(s, i + Len(old), old, new)
    ELSE <<s[i]>> \o ReplaceFrom(s, i + 1, old, new)

Replace(s, old, new) == ReplaceFrom(s, 1, old, new)

DotDat == <<".", "d", "a", "t">>

DotPol == <<".", "p", "o", "l">>

\* --------------------------------------------------------------- directories
EmptyDir == [n \in {} |-> <<>>]

WriteFile(dir, name, file) == [n \in (DOMAIN dir) \cup {name} |-> IF n = name THEN file ELSE dir[n]]

RemoveFile(dir, name) == [n \in (DOMAIN dir) \ {name} |-> dir[n]]

\* ------------------------------------------------- create_pollock_aerofoil
points_div_2 == points \div 2 - 4

points_xbtw_2_as_leading == points \div 2 - 4

\* The number of stations np.linspace is asked for behind the plateau.
points_xbtw_2 == points - 4 - points_div_2

\* The unit of a station: x is held as x * One(c).  Grid makes the divisions
\* by 3, by points_div_2 and by the linspace intervals exact.
Grid == LCM(3 * points_div_2, points_div_2 * ((points_xbtw_2 - 1) \div GCD(points_div_2 - 1, points_xbtw_2 - 1)))

One(c) == c * ParamScale * Grid

v1(t, c, xle) == xle * t * Grid

v2(t, c, xte) == (c * ParamScale - xte * t) * Grid

\* np.linspace(start, stop, num): num samples, the last one stop itself.
linspace(start, stop, num) ==
    [i \in 1..num |-> IF i = num /\ num > 1 THEN stop ELSE start + (i - 1) * ((stop - start) \div Max(num - 1, 1))]

iota_1(t, c, xle) == v1(t, c, xle) \div points_div_2

xbtw_1(t, c, xle) == linspace(0, v1(t, c, xle) - iota_1(t, c, xle), points_div_2)

iota_2(t, c, xte) == (One(c) - v2(t, c, xte)) \div points_div_2

xbtw_2(t, c, xte) == linspace(v2(t, c, xte) + iota_2(t, c, xte), One(c), points_xbtw_2)

plateau(t, c, xle, xte) ==
    LET a == v1(t, c, xle)
        b == v2(t, c, xte)
    IN  <<a, a + (b - a) \div 3, a + (2 * (b - a)) \div 3, b>>

\* sorted(l): ascending, equal entries kept.
sorted(l) == SortSeq(l, LAMBDA a, b : a < b)

xlist_unsorted(t, c, xle, xte) == plateau(t, c, xle, xte) \o xbtw_1(t, c, xle) \o xbtw_2(t, c, xte)

\* Lines 102-104.
xlist(t, c, xle, xte) == sorted(plateau(t, c, xle, xte) \o xbtw_1(t, c, xle) \o xbtw_2(t, c, xte))

\* The piecewise function that gives a station its y: 1 is y1 (nose), 2 is
\* y2 (trailing edge blend), 3 is y3 (plateau).  The y value itself (a
\* square root) is not computed.
ylist_region(x, t, c, xle, xte) ==
    IF x <= v1(t, c, xle) THEN 1 ELSE IF x >= v2(t, c, xte) THEN 2 ELSE 3

aerofoil_name(xle, xte, S) == <<"p", "_">> \o FloatStr(xle) \o <<"_">> \o FloatStr(xte) \o <<"_">> \o FloatStr(S)

\* The file the two write loops produce: the name line, the stations in
\* descending x, then the same stations in ascending x (y negated).
dat_file(t, c, xle, xte, S) ==
    LET xs == xlist(t, c, xle, xte)
        st == [i \in 1..Len(xs) |-> <<xs[i], ylist_region(xs[i], t, c, xle, xte)>>]
    IN  [name |-> aerofoil_name(xle, xte, S), upper |-> Reverse(st), lower |-> st]

\* create_pollock_aerofoil: the dat directory after the call, and the
\* returned file name.  The source raises nothing on any parameters.
create_pollock_aerofoil(dir, t, c, xle, xte, S) ==
    [dat |-> WriteFile(dir, aerofoil_name(xle, xte, S) \o DotDat, dat_file(t, c, xle, xte, S)),
     ret |-> [kind |-> "ok", val |-> aerofoil_name(xle, xte, S) \o DotDat]]

\* ---------------------------------------------------------------- read_pol
\* A line of a polar file is the list of its whitespace-separated fields
\* (line.split()); a field is a number float() accepts, or other text.
Num(v) == [num |-> TRUE, v |-> v]

Text == [num |-> FALSE, v |-> 0]

HeaderLine == <<Text, Text>>

Header(n) == [i \in 1..n |-> HeaderLine]

better_or_equal(cl, cl_max) == cl >= cl_max

\* Line 195.
better(cl, cl_max) == cl > cl_max

\* The loop over lines[13:]: the running maximum, or the exception that
\* float(line.split()[1]) or float(line.split()[0]) raises.
RECURSIVE max_cl(_, _, _)
max_cl(lines, cl_max, aoa_max) ==
    IF Len(lines) = 0 THEN [kind |-> "ok", val |-> <<cl_max, aoa_max>>]
    ELSE LET f == Head(lines)
         IN  IF Len(f) < 2 THEN [kind |-> "IndexError", val |-> <<0, 0>>]
             ELSE IF ~f[2].num \/ ~f[1].num THEN [kind |-> "ValueError", val |-> <<0, 0>>]
             ELSE IF better(f[2].v, cl_max) THEN max_cl(Tail(lines), f[2].v, f[1].v)
             ELSE max_cl(Tail(lines), cl_max, aoa_max)

\* lines[13:]
data_lines(lines) == SubSeq(lines, HeaderLines + 1, Len(lines))

read_pol(dir, aerofoil_pol) ==
    IF aerofoil_pol \notin DOMAIN dir THEN [kind |-> "FileNotFoundError", val |-> <<0, 0>>]
    ELSE max_cl(data_lines(dir[aerofoil_pol].lines), 0, 0)

\* --------------------------------------------------------------- run_xfoil
pol_name(aerofoil_dat) == Replace(aerofoil_dat, DotDat, DotPol)

remove_polar_never(dir, aerofoil_dat) == dir

\* Lines 140-141: remove the polar of this geometry if there is one.
remove_polar(dir, aerofoil_dat) ==
    IF pol_name(aerofoil_dat) \in DOMAIN dir THEN RemoveFile(dir, pol_name(aerofoil_dat)) ELSE dir

\* The solver process (external).  out is what this run accumulates: "none"
\* when it saves no polar, else its rows.  PACC starts a new polar file, or
\* goes on accumulating into the file that is already there.  runs records
\* the evaluations whose solver run wrote into the file.
xfoil_exe(dir, aerofoil_dat, out, run) ==
    LET n == pol_name(aerofoil_dat)
    IN  IF out.none THEN dir
        ELSE IF n \in DOMAIN dir
        THEN WriteFile(dir, n, [lines |-> dir[n].lines \o out.rows, runs |-> dir[n].runs \cup {run}])
        ELSE WriteFile(dir, n, [lines |-> Header(HeaderLines) \o out.rows, runs |-> {run}])

\* ------------------------------------------------------ objective_function
\* round(p, 3): to the nearest thousandth, a tie to the even one.
round3(p) ==
    LET q == p \div 10
        r == p % 10
    IN  IF r < 5 THEN 10 * q ELSE IF r > 5 THEN 10 * (q + 1) ELSE IF q % 2 = 0 THEN 10 * q ELSE 10 * (q + 1)

round_param_none(p) == p

\* Line 203.
round_param(p) == <<round3(p[1]), round3(p[2])>>

\* -------------------------------------------------------- result aggregation
\* One pass of the loop over os.listdir: the (x_te, S, cl) it appends for a
\* polar file name, or the exception it raises.
aggregate_entry(dir, pol_file) ==
    LET parts == Split(pol_file, "_")
    IN  IF Len(parts) < 3 THEN [kind |-> "IndexError", val |-> <<0, 0, 0>>]
        ELSE IF ~IsFloatText(parts[3]) THEN [kind |-> "ValueError", val |-> <<0, 0, 0>>]
        ELSE IF Len(parts) < 4 THEN [kind |-> "IndexError", val |-> <<0, 0, 0>>]
        ELSE IF ~IsFloatText(Split(parts[4], ".")[1]) THEN [kind |-> "ValueError", val |-> <<0, 0, 0>>]
        ELSE LET r == read_pol(dir, pol_file)
             IN  IF r.kind # "ok" THEN [kind |-> r.kind, val |-> <<0, 0, 0>>]
                 ELSE [kind |-> "ok",
                       val |-> <<FloatOf(parts[3]), FloatOf(Split(parts[4], ".")[1]), r.val[1]>>]

\* ------------------------------------------------------------------- state
VARIABLES
    pc,     \* where the program is
    dat,    \* the dat directory: file name -> geometry file
    pol,    \* the pol directory: file name -> polar file
    args,   \* the argument of the call in progress
    ret,    \* what the last call returned or raised
    obj,    \* objective_function's frame: caller, param, aerofoil_dat, cl_max, aoa_max
    opt,    \* the driver: minimize's evaluations and result, the optimal_* globals
    agg,    \* the aggregation loop: files left, the three lists
    hist    \* history: evaluations made, steps counted, what the solver wrote

vars == <<pc, dat, pol, args, ret, obj, opt, agg, hist>>

NoRet == [kind |-> "none", val |-> <<0, 0>>]

NoOut == [none |-> TRUE, rows |-> <<>>]

obj0 == [caller |-> "none", param |-> <<0, 0>>, aerofoil_dat |-> <<>>, cl_max |-> 0, aoa_max |-> 0]

opt0 ==
    [nfev |-> 0, probed |-> {}, x |-> <<0, 0>>, optimal_aerofoil_dat |-> <<>>,
     optimal_cl_max |-> 0, optimal_aoa_max |-> 0]

agg0 == [todo |-> {}, list_of_x_te |-> <<>>, list_of_S |-> <<>>, list_of_cl |-> <<>>, list_of_pol |-> <<>>]

hist0 ==
    [evals |-> {}, nEval |-> 0, nGen |-> 0, nSolver |-> 0, nParse |-> 0, post |-> 0,
     stale |-> FALSE, out |-> NoOut, src |-> <<0, 0, 0>>]

\* ------------------------------------------------- the optimisation program
Row(aoa, cl) == <<Num(aoa), Num(cl)>>

\* What one solver run may leave: no polar, a polar without rows, a sweep,
\* a sweep with a broken line.
SolverOutputs ==
    {NoOut,
     [none |-> FALSE, rows |-> <<>>],
     [none |-> FALSE, rows |-> <<Row(0, 40), Row(20, 85)>>],
     [none |-> FALSE, rows |-> <<Row(0, 40), <<>>>>]}

\* A polar left in the pol directory by an earlier run of the program.
StalePolar == [lines |-> Header(HeaderLines) \o <<Row(0, 60), Row(20, 110)>>, runs |-> {0}]

InBounds(p) == \A i \in 1..2 : bounds[i][1] <= p[i] /\ p[i] <= bounds[i][2]

\* The points minimize may ask for: any point of the box.
Probes == {p \in {<<21434, 8030>>, <<21234, 8001>>, <<21230, 8000>>} : InBounds(p)}

Init ==
    /\ pc = "minimize"
    /\ dat = EmptyDir
    /\ pol \in {EmptyDir, WriteFile(EmptyDir, aerofoil_name(x_le, baseline[1], baseline[2]) \o DotPol, StalePolar)}
    /\ args = <<0, 0>>
    /\ ret = NoRet
    /\ obj = obj0
    /\ opt = opt0
    /\ agg = agg0
    /\ hist = hist0

\* objective_function(p) is entered: line 203 rounds the parameters.
objective_function_enter(p, caller) ==
    /\ args' = p
    /\ obj' = [obj0 EXCEPT !.caller = caller, !.param = round_param(p)]
    /\ pc' = "create"

\* minimize evaluates its function: first at the baseline, then anywhere.
Minimize_evaluate ==
    /\ pc = "minimize"
    /\ opt.nfev < MaxEvals
    /\ \E p \in (IF opt.nfev = 0 THEN {baseline} ELSE Probes) :
        /\ objective_function_enter(p, "minimize")
        /\ opt' = [opt EXCEPT !.nfev = @ + 1, !.probed = @ \cup {p}]
    /\ hist' = [hist EXCEPT !.nEval = @ + 1]
    /\ UNCHANGED <<dat, pol, ret, agg>>

\* minimize returns: result.x is one of the points it evaluated.
Minimize_return ==
    /\ pc = "minimize"
    /\ opt.nfev >= 1
    /\ \E x \in opt.probed : opt' = [opt EXCEPT !.x = x]
    /\ pc' = "line241"
    /\ UNCHANGED <<dat, pol, args, ret, obj, agg, hist>>

\* Lines 241, 242, 243: objective_function(optimal_params), once per line.
Driver_evaluate ==
    /\ pc \in {"line241", "line242", "line243"}
    /\ objective_function_enter(opt.x, pc)
    /\ hist' = [hist EXCEPT !.nEval = @ + 1, !.post = @ + 1]
    /\ UNCHANGED <<dat, pol, ret, opt, agg>>

\* objective_function with a cache: a geometry generated before is not
\* generated and solved again, its polar is read as it is.
Obj_create_cached ==
    /\ pc = "create"
    /\ LET name == aerofoil_name(x_le, obj.param[1], obj.param[2]) \o DotDat
           r    == create_pollock_aerofoil(dat, thickness, chordlength, x_le, obj.param[1], obj.param[2])
       IN  /\ obj' = [obj EXCEPT !.aerofoil_dat = name]
           /\ IF name \in DOMAIN dat
              THEN /\ dat' = dat
                   /\ hist' = hist
                   /\ pc' = "read"
              ELSE /\ dat' = r.dat
                   /\ hist' = [hist EXCEPT !.nGen = @ + 1]
                   /\ pc' = "remove"
    /\ UNCHANGED <<pol, args, ret, opt, agg>>

\* Line 206.
Obj_create ==
    /\ pc = "create"
    /\ LET r == create_pollock_aerofoil(dat, thickness, chordlength, x_le, obj.param[1], obj.param[2])
       IN  /\ dat' = r.dat
           /\ obj' = [obj EXCEPT !.aerofoil_dat = r.ret.val]
           /\ hist' = [hist EXCEPT !.nGen = @ + 1,
                                   !.evals = @ \cup {[run |-> hist.nEval, raw |-> args, name |-> r.ret.val,
                                                      cargs |-> <<thickness, chordlength, x_le, obj.param[1], obj.param[2]>>]}]
    /\ pc' = "remove"
    /\ UNCHANGED <<pol, args, ret, opt, agg>>

\* Line 212, run_xfoil, lines 140-141.
Obj_run_xfoil_remove ==
    /\ pc = "remove"
    /\ pol' = remove_polar(pol, obj.aerofoil_dat)
    /\ hist' = [hist EXCEPT !.stale = pol_name(obj.aerofoil_dat) \in DOMAIN pol]
    /\ pc' = "solver"
    /\ UNCHANGED <<dat, args, ret, obj, opt, agg>>

\* run_xfoil, lines 143-183: the solver runs to its end.
Obj_run_xfoil_solver ==
    /\ pc = "solver"
    /\ \E out \in SolverOutputs :
        /\ pol' = xfoil_exe(pol, obj.aerofoil_dat, out, hist.nEval)
        /\ hist' = [hist EXCEPT !.nSolver = @ + 1, !.out = out]
    /\ pc' = "read"
    /\ UNCHANGED <<dat, args, ret, obj, opt, agg>>

\* Line 215: read_pol; what it raises ends the program.
Obj_read_pol ==
    /\ pc = "read"
    /\ LET r == read_pol(pol, pol_name(obj.aerofoil_dat))
       IN  IF r.kind = "ok"
           THEN /\ obj' = [obj EXCEPT !.cl_max = r.val[1], !.aoa_max = r.val[2]]
                /\ pc' = "return"
                /\ ret' = ret
           ELSE /\ obj' = obj
                /\ pc' = "crashed"
                /\ ret' = r
    /\ hist' = [hist EXCEPT !.nParse = @ + 1]
    /\ UNCHANGED <<dat, pol, args, opt, agg>>

\* Line 221, and what the caller does with the returned triple.
Obj_return ==
    /\ pc = "return"
    /\ ret' = [kind |-> "ok", val |-> <<-obj.cl_max, obj.aoa_max, obj.aerofoil_dat>>]
    /\ \/ /\ obj.caller = "minimize"
          /\ pc' = "minimize"
          /\ UNCHANGED <<opt, hist>>
       \/ /\ obj.caller = "line241"
          /\ opt' = [opt EXCEPT !.optimal_aerofoil_dat = obj.aerofoil_dat]
          /\ hist' = [hist EXCEPT !.src[1] = hist.nEval]
          /\ pc' = "line242"
       \/ /\ obj.caller = "line242"
          /\ opt' = [opt EXCEPT !.optimal_cl_max = -obj.cl_max]
          /\ hist' = [hist EXCEPT !.src[2] = hist.nEval]
          /\ pc' = "line243"
       \/ /\ obj.caller = "line243"
          /\ opt' = [opt EXCEPT !.optimal_aoa_max = obj.aoa_max]
          /\ hist' = [hist EXCEPT !.src[3] = hist.nEval]
          /\ pc' = "listdir"
    /\ UNCHANGED <<dat, pol, args, obj, agg>>

\* Line 249: os.listdir.
Agg_listdir ==
    /\ pc = "listdir"
    /\ agg' = [agg0 EXCEPT !.todo = DOMAIN pol]
    /\ pc' = "aggregate"
    /\ UNCHANGED <<dat, pol, args, ret, obj, opt, hist>>

\* Lines 250-252 for the next file of the listing (in the directory's order).
Agg_step ==
    /\ pc = "aggregate"
    /\ \E n \in agg.todo :
        LET r == aggregate_entry(pol, n)
        IN  IF r.kind = "ok"
            THEN /\ agg' = [agg EXCEPT !.todo = @ \ {n},
                                       !.list_of_x_te = Append(@, r.val[1]),
                                       !.list_of_S = Append(@, r.val[2]),
                                       !.list_of_cl = Append(@, r.val[3]),
                                       !.list_of_pol = Append(@, n)]
                 /\ pc' = pc
                 /\ ret' = ret
            ELSE /\ agg' = agg
                 /\ pc' = "crashed_agg"
                 /\ ret' = r
    /\ UNCHANGED <<dat, pol, args, obj, opt, hist>>

\* Lines 255-260: the loop is over, the plot is shown.
Agg_plot ==
    /\ pc = "aggregate"
    /\ agg.todo = {}
    /\ pc' = "done"
    /\ UNCHANGED <<dat, pol, args, ret, obj, opt, agg, hist>>

Next ==
    \/ Minimize_evaluate
    \/ Minimize_return
    \/ Driver_evaluate
    \/ Obj_create
    \/ Obj_run_xfoil_remove
    \/ Obj_run_xfoil_solver
    \/ Obj_read_pol
    \/ Obj_return
    \/ Agg_listdir
    \/ Agg_step
    \/ Agg_plot

Spec == Init /\ [][Next]_vars

\* ------------------------------------- create_pollock_aerofoil on its own
\* The generator called once on drawn shape parameters: thickness and
\* chordlength whole numbers, x_le and x_te multiples of one half, with a dat
\* directory that is empty or already holds a file of the geometry's name.
GeomInputs(maxT, maxC, maxF) ==
    [t : 1..maxT, c : 1..maxC,
     xle : {k * (ParamScale \div 2) : k \in 1..maxF},
     xte : {k * (ParamScale \div 2) : k \in 1..maxF},
     S : {5000, 8030}]

OldDat == [name |-> <<>>, upper |-> <<>>, lower |-> <<>>]

InitGeom ==
    /\ pc = "geom_call"
    /\ args \in GeomInputs(MaxThickness, MaxChord, MaxFactor)
    /\ dat \in {EmptyDir, WriteFile(EmptyDir, aerofoil_name(args.xle, args.xte, args.S) \o DotDat, OldDat)}
    /\ pol = EmptyDir
    /\ ret = NoRet
    /\ obj = obj0
    /\ opt = opt0
    /\ agg = agg0
    /\ hist = hist0

Geom_call ==
    /\ pc = "geom_call"
    /\ LET r == create_pollock_aerofoil(dat, args.t, args.c, args.xle, args.xte, args.S)
       IN  /\ dat' = r.dat
           /\ ret' = r.ret
    /\ pc' = "geom_done"
    /\ UNCHANGED <<pol, args, obj, opt, agg, hist>>

NextGeom == Geom_call

SpecGeom == InitGeom /\ [][NextGeom]_vars

\* ------------------------------------------------------ read_pol on its own
\* The parser called once on a drawn polar file: a header of HeaderLines
\* lines (or one line fewer, or no file at all), then up to MaxRows lines,
\* each a row of the sweep or a broken line.
ClValues == {-5, 0, 40, 85, 105, 110}

LineKinds == {[k |-> "row", cl |-> v] : v \in ClValues} \cup {[k |-> b, cl |-> 0] : b \in {"blank", "short", "text"}}

\* Line i of the data region: the sweep's i-th angle (tenths of a degree).
LineOf(kind, i) ==
    IF kind.k = "row" THEN Row(20 * (i - 1), kind.cl)
    ELSE IF kind.k = "blank" THEN <<>>
    ELSE IF kind.k = "short" THEN <<Num(20 * (i - 1))>>
    ELSE <<Num(20 * (i - 1)), Text>>

\* The file with h header lines and the data lines of the kinds ks.
PolFile(h, ks) == [lines |-> Header(h) \o [i \in 1..Len(ks) |-> LineOf(ks[i], i)], runs |-> {0}]

PolName == <<"p", ".", "p", "o", "l">>

InitPol ==
    /\ pc = "pol_call"
    /\ args = PolName
    /\ \/ pol = EmptyDir
       \/ \E h \in {HeaderLines - 1, HeaderLines}, n \in 0..MaxRows :
            \E ks \in [1..n -> LineKinds] : pol = WriteFile(EmptyDir, PolName, PolFile(h, ks))
    /\ dat = EmptyDir
    /\ ret = NoRet
    /\ obj = obj0
    /\ opt = opt0
    /\ agg = agg0
    /\ hist = hist0

Pol_call ==
    /\ pc = "pol_call"
    /\ ret' = read_pol(pol, args)
    /\ pc' = "pol_done"
    /\ UNCHANGED <<dat, pol, args, obj, opt, agg, hist>>

NextPol == Pol_call

SpecPol == InitPol /\ [][NextPol]_vars

\* ================================================================== claims
\* ---- read_pol (SpecPol)
PolLines == pol[PolName].lines

\* The places of the lines after the header.
DataPlaces == (HeaderLines + 1)..Len(PolLines)

WellFormed(line) == Len(line) >= 2 /\ line[1].num /\ line[2].num

\* The answer the rows at the places D call for: the largest lift and the
\* angle of the first row that has it, or (0, 0) when no lift is positive.
MaxOver(D) ==
    IF \A i \in D : PolLines[i][2].v <= 0 THEN <<0, 0>>
    ELSE LET m == CHOOSE v \in {PolLines[i][2].v : i \in D} : \A j \in D : PolLines[j][2].v <= v
             first == CHOOSE i \in D : PolLines[i][2].v = m /\ \A j \in D : j < i => PolLines[j][2].v # m
         IN  <<m, PolLines[first][1].v>>

\* C2: on a polar file whose lines after the 13-line header are all
\* well-formed rows, read_pol returns the largest lift coefficient and the
\* angle of the first row attaining it when that lift is positive, and
\* (0, 0) when there is no row or no row has positive lift.
C2_ReadPolMax ==
    (pc = "pol_done" /\ PolName \in DOMAIN pol /\ \A i \in DataPlaces : WellFormed(PolLines[i]))
        => (ret.kind = "ok" /\ ret.val = MaxOver(DataPlaces))

\* The rows (0.0, 0.40), (2.0, 0.85), (4.0, 1.10), (6.0, 1.05) give (1.10, 4.0).
C2_Witness ==
    /\ pc = "pol_done"
    /\ PolName \in DOMAIN pol
    /\ PolLines = Header(HeaderLines) \o <<Row(0, 40), Row(20, 85), Row(40, 110), Row(60, 105)>>
    /\ ret = [kind |-> "ok", val |-> <<110, 40>>]

\* C3: a blank, short or non-numeric line after the header does not abort
\* read_pol; it returns the maximum over the well-formed rows.
C3_MalformedLineTolerated ==
    (pc = "pol_done" /\ PolName \in DOMAIN pol)
        => (ret.kind = "ok" /\ ret.val = MaxOver({i \in DataPlaces : WellFormed(PolLines[i])}))

\* ---- create_pollock_aerofoil (SpecGeom)
Degenerate(a) == a.xte * a.t >= a.c * ParamScale - a.xle * a.t

ValidShape(a) ==
    /\ a.t > 0 /\ a.c > 0 /\ a.xle > 0 /\ a.xte > 0 /\ a.S > 0
    /\ a.xle * a.t < a.c * ParamScale - a.xte * a.t

\* The x of the stations of the written file, in the order of its lower surface.
StationX == [i \in 1..Len(dat[ret.val].lower) |-> dat[ret.val].lower[i][1]]

\* C4: on degenerate parameters (x_te*thickness >= chordlength - x_le*thickness)
\* create_pollock_aerofoil fails with GeometryDegeneracy and writes no file.
C4_DegenerateRejected ==
    [][(pc = "geom_call" /\ Degenerate(args)) => (dat' = dat /\ ret'.kind = "GeometryDegeneracy")]_vars

\* C5: for valid shape parameters the written geometry has exactly 50
\* stations, strictly increasing in x from 0 to 1 on the lower surface, and
\* the upper surface is the same stations in descending x.
C5_FiftyStations ==
    (pc = "geom_done" /\ ValidShape(args)) =>
        /\ Len(StationX) = 50
        /\ \A i \in 1..(Len(StationX) - 1) : StationX[i] < StationX[i + 1]
        /\ StationX[1] = 0
        /\ StationX[Len(StationX)] = One(args.c)
        /\ dat[ret.val].upper = Reverse(dat[ret.val].lower)

C5_Witness ==
    /\ pc = "geom_done"
    /\ ValidShape(args)
    /\ args.t = 1 /\ args.c = 3 /\ args.xle = ParamScale /\ args.xte = ParamScale
    /\ Len(dat[ret.val].upper) = 50
    /\ dat[ret.val].upper[1][1] = One(3)
    /\ dat[ret.val].upper[50][1] = 0

LeadingPlaces == {i \in DOMAIN StationX : StationX[i] < v1(args.t, args.c, args.xle)}

TrailingPlaces == {i \in DOMAIN StationX : StationX[i] > v2(args.t, args.c, args.xte)}

PlateauPlaces == DOMAIN StationX \ (LeadingPlaces \cup TrailingPlaces)

\* The stations at the places P (a run of consecutive places) are evenly spaced.
EvenlySpaced(P) ==
    \A i \in P : (i + 1 \in P /\ i + 2 \in P) => StationX[i + 1] - StationX[i] = StationX[i + 2] - StationX[i + 1]

PlateauIsFourPoints ==
    LET a == v1(args.t, args.c, args.xle)
        b == v2(args.t, args.c, args.xte)
    IN  /\ Cardinality(PlateauPlaces) = 4
        /\ \E i \in PlateauPlaces : StationX[i] = a
        /\ \E i \in PlateauPlaces : 3 * (StationX[i] - a) = b - a
        /\ \E i \in PlateauPlaces : 3 * (StationX[i] - a) = 2 * (b - a)
        /\ \E i \in PlateauPlaces : StationX[i] = b

Count(q, x) == Cardinality({i \in DOMAIN q : q[i] = x})

\* The sequences q and r hold the same values, each as many times.
SameValues(q, r) == Len(q) = Len(r) /\ \A i \in DOMAIN q : Count(q, q[i]) = Count(r, q[i])

\* 21 values evenly spaced from 0, one step short of v1.
LeadingRun == [i \in 1..21 |-> (i - 1) * (v1(args.t, args.c, args.xle) \div 21)]

\* 25 values evenly spaced from one 21st of the way from v2 to 1, up to 1.
TrailingRun ==
    LET b == v2(args.t, args.c, args.xte)
        first == b + (One(args.c) - b) \div 21
    IN  [j \in 1..25 |-> first + (j - 1) * ((One(args.c) - first) \div 24)]

ThisPol == pol_name(obj.aerofoil_dat)

\* C1: the polar of the geometry is gone before the solver runs, so the
\* polar read_pol parses in an evaluation was written by that evaluation's
\* solver run alone; when that run saves no polar, read_pol raises
\* FileNotFoundError and no lift is returned.
C1_NoStalePolar ==
    /\ pc = "solver" => ThisPol \notin DOMAIN pol
    /\ (pc = "read" /\ hist.out.none) => ThisPol \notin DOMAIN pol
    /\ (pc = "read" /\ ~hist.out.none) =>
          (ThisPol \in DOMAIN pol /\ pol[ThisPol] = [lines |-> Header(HeaderLines) \o hist.out.rows, runs |-> {hist.nEval}])
    /\ pc = "return" =>
          (~hist.out.none /\ ThisPol \in DOMAIN pol /\ pol[ThisPol].runs = {hist.nEval})
    /\ (pc = "crashed" /\ hist.out.none) => ret.kind = "FileNotFoundError"

\* A polar of the geometry was there, the solver saved none: read_pol raised.
C1_Witness ==
    /\ pc = "crashed"
    /\ hist.stale
    /\ hist.out.none
    /\ hist.nEval >= 2
    /\ ret.kind = "FileNotFoundError"

\* The nearest thousandth of p (p in ten-thousandths), a tie to the even one.
Thousandth(p) ==
    LET near == {m \in (p - 10)..(p + 10) : m % 10 = 0 /\ \A k \in (p - 10)..(p + 10) : k % 10 = 0 => Abs(p - m) <= Abs(p - k)}
    IN  CHOOSE m \in near : Cardinality(near) = 1 \/ (m \div 10) % 2 = 0

\* C6: every evaluation names and generates its geometry from the parameters
\* rounded to 3 decimals, so two evaluations whose parameters round to the
\* same values have the same geometry name and the same generator arguments.
C6_RoundingCollapses ==
    /\ \A e \in hist.evals :
          /\ e.cargs = <<thickness, chordlength, x_le, Thousandth(e.raw[1]), Thousandth(e.raw[2])>>
          /\ e.name = aerofoil_name(x_le, Thousandth(e.raw[1]), Thousandth(e.raw[2])) \o DotDat
    /\ \A e1, e2 \in hist.evals :
          (Thousandth(e1.raw[1]) = Thousandth(e2.raw[1]) /\ Thousandth(e1.raw[2]) = Thousandth(e2.raw[2]))
              => (e1.name = e2.name /\ e1.cargs = e2.cargs)

\* (2.1234, 0.8001) and (2.123, 0.800) were both evaluated, as one geometry.
C6_Witness ==
    \E e1, e2 \in hist.evals :
        /\ e1.raw = <<21234, 8001>>
        /\ e2.raw = <<21230, 8000>>
        /\ e1.name = e2.name
        /\ Cardinality(DOMAIN dat) = 2

\* C7: the aggregation loop recovers from a polar file's name the x_te and
\* the S the geometry was generated from.
C7_NameRoundTrip ==
    \A i \in 1..Len(agg.list_of_pol) : \A e \in hist.evals :
        pol_name(e.name) = agg.list_of_pol[i]
            => (agg.list_of_x_te[i] = e.cargs[4] /\ agg.list_of_S[i] = e.cargs[5])

\* C8: after minimize returns, objective_function is evaluated exactly once
\* more, and the geometry name, the lift and the angle come from that one
\* evaluation.
C8_OneEvaluationAtOptimum ==
    pc \in {"listdir", "aggregate", "done", "crashed_agg"}
        => (hist.post = 1 /\ hist.src[1] = hist.src[2] /\ hist.src[2] = hist.src[3])

\* C9: every evaluation generates the geometry, runs the solver and parses
\* the polar, each once and in that order, before the next evaluation
\* starts: the counts of the three steps follow the count of evaluations.
C9_PipelineOncePerEvaluation ==
    LET n == hist.nEval
    IN  /\ pc = "create" => (hist.nGen = n - 1 /\ hist.nSolver = n - 1 /\ hist.nParse = n - 1)
        /\ pc \in {"remove", "solver"} => (hist.nGen = n /\ hist.nSolver = n - 1 /\ hist.nParse = n - 1)
        /\ pc = "read" => (hist.nGen = n /\ hist.nSolver = n /\ hist.nParse = n - 1)
        /\ pc \notin {"create", "remove", "solver", "read"} => (hist.nGen = n /\ hist.nSolver = n /\ hist.nParse = n)

\* Two evaluations of the same geometry, each with its own solver run.
C9_Witness ==
    /\ pc = "minimize"
    /\ hist.nEval = 2
    /\ hist.nSolver = 2
    /\ \E e1, e2 \in hist.evals : e1.run # e2.run /\ e1.name = e2.name

====
